---- MODULE Spec2Model ----
(***************************************************************************)
(* Model of the fact-validation pipeline:                                  *)
(*   src/validation_and_reasoning.py  extract_json_from_response,          *)
(*                                    validate_facts_batch                 *)
(*   src/evidence/web_search.py       google_search                        *)
(*   src/main.py                      main                                 *)
(*                                                                         *)
(* Text is a sequence of one-character strings.  The character "J" stands  *)
(* for the serialisation of one complete JSON value (the variable body     *)
(* says which); that serialisation holds no backtick.  Every other         *)
(* character is itself, the backtick written "BT".  JSON values are        *)
(* records with a kind field.                                              *)
(***************************************************************************)
EXTENDS Integers, Sequences, FiniteSets, TLC

VARIABLES
    pc,                 \* position of the modelled routine
    msg,                \* raw generated text (validation_and_reasoning.py:105)
    body,               \* JSON value the character "J" of msg serialises
    wrapper,            \* how msg was built around the JSON text
    llm_results,        \* value returned by extract_json_from_response
    facts_evidence_dict,\* ordered mapping fact -> evidence list
    prompt,             \* FACT / EVIDENCE labels written into the prompt
    idx,                \* 1-based position of the claim being resolved
    evidence_list,      \* evidence list of the claim being resolved
    n_cited,            \* number of citations consumed so far
    supporting_urls,    \* list built by the citation loop
    cited_urls,         \* history: URLs the consumed tokens name for this claim
    results,            \* ordered mapping fact -> result (sequence of pairs)
    outcome,            \* "none", "returned" or "raised"
    qa_pairs,           \* number of QA pairs read from qa_pairs.json
    qa,                 \* 1-based index of the QA pair main is processing
    facts,              \* facts extracted from the current answer
    evidence_dict,      \* main's fact -> evidence mapping, built fact by fact
    retrieval_calls,    \* google_search calls returned for the current batch
    generation_calls,   \* llm.invoke calls made for the current batch
    run,                \* "running", "aborted" or "finished"
    printed             \* what main printed for the current batch

vars == << pc, msg, body, wrapper, llm_results, facts_evidence_dict, prompt,
           idx, evidence_list, n_cited, supporting_urls, cited_urls,
           results, outcome, qa_pairs, qa, facts, evidence_dict, retrieval_calls,
           generation_calls, run, printed >>

parserVars == << msg, body, wrapper, llm_results >>
resolverVars == << idx, evidence_list, n_cited, supporting_urls, cited_urls >>
batchVars == << facts_evidence_dict, prompt, results, outcome >>
mainVars == << qa_pairs, qa, facts, evidence_dict, retrieval_calls, generation_calls, run, printed >>

----------------------------------------------------------------------------
(* Bounds of the model *)

MaxProse == 2       \* characters of prose before / after the JSON text
MaxClaims == 2      \* claims in one batch
MaxEv == 2          \* evidence items per claim
MaxTokPieces == 4   \* pieces a citation token is assembled from
MaxCited == 2       \* citation tokens per claim
MaxPairs == 2       \* QA pairs in qa_pairs.json

----------------------------------------------------------------------------
(* Python string primitives on sequences of characters *)

WHITESPACE == {" "}

RECURSIVE lstrip(_, _)
lstrip(s, chars) ==
    IF s # <<>> /\ Head(s) \in chars THEN lstrip(Tail(s), chars) ELSE s

RECURSIVE rstrip(_, _)
rstrip(s, chars) ==
    IF s # <<>> /\ s[Len(s)] \in chars
    THEN rstrip(SubSeq(s, 1, Len(s) - 1), chars)
    ELSE s

strip(s, chars) == rstrip(lstrip(s, chars), chars)

\* index of the first occurrence of sep in s, 0 when there is none
find(s, sep) ==
    LET hits == { i \in 1..(Len(s) - Len(sep) + 1) :
                     SubSeq(s, i, i + Len(sep) - 1) = sep }
    IN IF hits = {} THEN 0 ELSE CHOOSE i \in hits : \A j \in hits : i <= j

contains(s, sep) == find(s, sep) # 0

\* str.split(sep): leftmost non-overlapping occurrences
RECURSIVE split(_, _)
split(s, sep) ==
    LET i == find(s, sep)
    IN IF i = 0 THEN << s >>
       ELSE << SubSeq(s, 1, i - 1) >> \o split(SubSeq(s, i + Len(sep), Len(s)), sep)

RECURSIVE concat(_)
concat(ss) == IF ss = <<>> THEN <<>> ELSE Head(ss) \o concat(Tail(ss))

\* str.replace(old, ""): every occurrence of old removed
remove(s, old) == concat(split(s, old))

SeqsUpTo(S, n) == UNION { [1..k -> S] : k \in 0..n }

Range(s) == { s[i] : i \in 1..Len(s) }

----------------------------------------------------------------------------
(* JSON values *)

None == [kind |-> "null"]
Missing == [kind |-> "missing"]              \* dict.get found no such key
Str(s) == [kind |-> "string", s |-> s]
Num == [kind |-> "number"]
Arr(items) == [kind |-> "array", items |-> items]
Obj(entries) == [kind |-> "object", entries |-> entries]

----------------------------------------------------------------------------
(* extract_json_from_response *)

FENCE == << "BT", "BT", "BT" >>
FENCE_JSON == FENCE \o << "j", "s", "o", "n" >>
JSON_TEXT == << "J" >>

\* json.loads: the text is one JSON value or the load fails.  A failure is
\* caught at line 34 and None returned; the JSON text null loads as None too.
json_loads(text, value) ==
    IF strip(text, WHITESPACE) = JSON_TEXT THEN value ELSE None

unfence(m) ==
    IF contains(m, FENCE_JSON)
    THEN LET a == split(m, FENCE_JSON)[2]
         IN IF contains(a, FENCE) THEN split(a, FENCE)[1] ELSE a
    ELSE IF contains(m, FENCE)
         THEN LET parts == split(m, FENCE)
              IN IF Len(parts) >= 3 THEN parts[2] ELSE parts[Len(parts)]
         ELSE m

clean_affixes(m) ==
    strip(strip(lstrip(m, {"j", "s", "o", "n"}), {"BT"}), WHITESPACE)

extract_json_from_response(m, value) ==
    json_loads(clean_affixes(unfence(strip(m, WHITESPACE))), value)

----------------------------------------------------------------------------
(* Generated texts: the JSON text alone, fenced, and amid prose *)

PROSE_CHARS == {"p", "n", " ", "BT"}
Prose == SeqsUpTo(PROSE_CHARS, MaxProse)
FenceKinds == {"none", "json", "bare"}
Cores == {JSON_TEXT, <<>>}

Wrap(pre, fence, core, post) ==
    pre \o (CASE fence = "json" -> FENCE_JSON \o << " " >> \o core \o << " " >> \o FENCE
              [] fence = "bare" -> FENCE \o << " " >> \o core \o << " " >> \o FENCE
              [] OTHER -> core) \o post

Wrappers == [pre : Prose, fence : FenceKinds, core : Cores, post : Prose]

TextOf(w) == Wrap(w.pre, w.fence, w.core, w.post)

NoWrapper == [pre |-> <<>>, fence |-> "none", core |-> JSON_TEXT, post |-> <<>>]

ParserBodies == { Obj(<<>>), Arr(<<>>), Num, Str("text"), None }

ParserIdle ==
    msg = <<>> /\ body = None /\ wrapper = NoWrapper /\ llm_results = None

ResolverIdle ==
    /\ idx = 0 /\ evidence_list = <<>> /\ n_cited = 0
    /\ supporting_urls = <<>> /\ cited_urls = {}

BatchIdle ==
    facts_evidence_dict = <<>> /\ prompt = <<>> /\ results = <<>> /\ outcome = "none"

MainIdle ==
    /\ qa_pairs = 0 /\ qa = 0 /\ facts = <<>> /\ evidence_dict = <<>>
    /\ retrieval_calls = 0 /\ generation_calls = 0 /\ run = "running"
    /\ printed = [kind |-> "none"]

ParserInit ==
    /\ pc = "generated"
    /\ wrapper \in Wrappers
    /\ msg = TextOf(wrapper)
    /\ body \in ParserBodies
    /\ llm_results = None
    /\ ResolverIdle /\ BatchIdle /\ MainIdle

Parse ==
    /\ pc = "generated"
    /\ llm_results' = extract_json_from_response(msg, body)
    /\ pc' = "parsed"
    /\ UNCHANGED << msg, body, wrapper, resolverVars, batchVars, mainVars >>

ParserNext == Parse

SpecParser == ParserInit /\ [][ParserNext]_vars

----------------------------------------------------------------------------
(* Citation resolution: validate_facts_batch, lines 134-153 *)

WORD == << "E", "V", "I", "D", "E", "N", "C", "E" >>
DOT == << "." >>
DIGITS == {"0", "1", "2", "3", "4", "5", "6", "7", "8", "9"}

DigitValue(c) ==
    CASE c = "0" -> 0 [] c = "1" -> 1 [] c = "2" -> 2 [] c = "3" -> 3
      [] c = "4" -> 4 [] c = "5" -> 5 [] c = "6" -> 6 [] c = "7" -> 7
      [] c = "8" -> 8 [] c = "9" -> 9

RECURSIVE DecimalValue(_)
DecimalValue(ds) ==
    IF ds = <<>> THEN 0
    ELSE 10 * DecimalValue(SubSeq(ds, 1, Len(ds) - 1)) + DigitValue(ds[Len(ds)])

\* int(text): surrounding whitespace is ignored, then one or more digits;
\* anything else raises ValueError.  (Signs and underscores are outside the
\* alphabet of the modelled tokens.)
int_ok(text) ==
    LET t == strip(text, WHITESPACE)
    IN t # <<>> /\ \A i \in 1..Len(t) : t[i] \in DIGITS

int(text) == DecimalValue(strip(text, WHITESPACE))

\* CitationUrls without the test fnum == idx of line 141
CitationUrlsAnyClaim(cit, i, ev_list) ==
    IF cit.kind # "string" THEN <<>>
    ELSE LET citation_clean == strip(remove(cit.s, WORD), WHITESPACE)
             parts == split(citation_clean, DOT)
         IN IF Len(parts) # 2 THEN <<>>
            ELSE IF ~(int_ok(parts[1]) /\ int_ok(parts[2])) THEN <<>>
            ELSE LET enum == int(parts[2])
                 IN IF 1 <= enum /\ enum <= Len(ev_list)
                    THEN LET url == ev_list[enum].url
                         IN IF url # "" THEN << url >> ELSE <<>>
                    ELSE <<>>

\* The body of the try block for one citation: the URLs it appends.
\* A citation that is not a string has no replace(): AttributeError, caught.
CitationUrls(cit, i, ev_list) ==
    IF cit.kind # "string" THEN <<>>
    ELSE LET citation_clean == strip(remove(cit.s, WORD), WHITESPACE)
             parts == split(citation_clean, DOT)
         IN IF Len(parts) # 2 THEN <<>>
            ELSE IF ~(int_ok(parts[1]) /\ int_ok(parts[2])) THEN <<>>
            ELSE LET fnum == int(parts[1])
                     enum == int(parts[2])
                 IN IF fnum = i /\ 1 <= enum /\ enum <= Len(ev_list)
                    THEN LET url == ev_list[enum].url
                         IN IF url # "" THEN << url >> ELSE <<>>
                    ELSE <<>>

RECURSIVE ResolveCitations(_, _, _)
ResolveCitations(cited, i, ev_list) ==
    IF cited = <<>> THEN <<>>
    ELSE CitationUrls(Head(cited), i, ev_list)
             \o ResolveCitations(Tail(cited), i, ev_list)

\* list(set(supporting_urls)), kept as the set it enumerates
UrlSet(urls) == Range(urls)

(* Inputs of the resolver *)

URLS == {"", "u1", "u2"}
Evidence == [url : URLS]
EvidenceLists == SeqsUpTo(Evidence, MaxEv)

TOKEN_PIECES == { WORD \o << " " >>, << "." >>, << "1" >>, << "2" >>, << "x" >> }
TokenTexts == { concat(ps) : ps \in SeqsUpTo(TOKEN_PIECES, MaxTokPieces) }
Tokens == { Str(t) : t \in TokenTexts } \cup { Num }

(* The statement of the resolver's contract, written without the code's    *)
(* split and int: what a token contributes for the claim at position i.    *)
(* with the word EVIDENCE and surrounding whitespace removed the token is  *)
(* a "." b, neither a nor b holding a ".", a an integer equal to i and b   *)
(* an integer e in 1..L; it then names the URL stored at position e.       *)
Denotes(text, n) ==
    LET t == strip(text, WHITESPACE)
    IN /\ t # <<>>
       /\ \A k \in 1..Len(t) : t[k] \in DIGITS
       /\ DecimalValue(t) = n

NamedPositions(tok, i, ev_list) ==
    IF tok.kind # "string" THEN {}
    ELSE LET t == strip(remove(tok.s, WORD), WHITESPACE)
         IN { e \in 1..Len(ev_list) :
                \E d \in 1..Len(t) :
                   /\ t[d] = "."
                   /\ \A k \in 1..Len(t) : t[k] = "." => k = d
                   /\ Denotes(SubSeq(t, 1, d - 1), i)
                   /\ Denotes(SubSeq(t, d + 1, Len(t)), e) }

NamedUrls(tok, i, ev_list) ==
    { ev_list[e].url : e \in NamedPositions(tok, i, ev_list) } \ {""}

ResolverInit ==
    /\ pc = "cite"
    /\ idx \in 1..MaxClaims
    /\ evidence_list \in EvidenceLists
    /\ n_cited = 0
    /\ supporting_urls = <<>> /\ cited_urls = {}
    /\ ParserIdle /\ BatchIdle /\ MainIdle

\* one iteration of "for citation in cited", on the next element of cited
Cite ==
    /\ pc = "cite"
    /\ n_cited < MaxCited
    /\ \E tok \in Tokens :
          /\ supporting_urls' = supporting_urls \o CitationUrls(tok, idx, evidence_list)
          /\ cited_urls' = cited_urls \cup NamedUrls(tok, idx, evidence_list)
    /\ n_cited' = n_cited + 1
    /\ UNCHANGED << pc, idx, evidence_list, parserVars, batchVars, mainVars >>

\* the loop is over: results[fact] = {..., "supporting_urls": list(set(...))}
StoreResult ==
    /\ pc = "cite"
    /\ results' = << [supporting_urls |-> UrlSet(supporting_urls)] >>
    /\ pc' = "stored"
    /\ UNCHANGED << resolverVars, parserVars, facts_evidence_dict, prompt,
                    outcome, mainVars >>

ResolverNext == Cite \/ StoreResult

SpecResolver == ResolverInit /\ [][ResolverNext]_vars

----------------------------------------------------------------------------
(* validate_facts_batch *)

ALL_FACTS == << "A", "B", "C", "D" >>
Facts == { ALL_FACTS[i] : i \in 1..MaxClaims }

\* lines 60-82: the FACT #idx header and the EVIDENCE idx.i label of every item
FormatEvidence(d) ==
    [ i \in 1..Len(d) |->
        [ fact_no |-> i,
          fact |-> d[i].fact,
          labels |-> [ j \in 1..Len(d[i].evidence) |->
                         [ f |-> i, e |-> j, url |-> d[i].evidence[j].url ] ] ] ]

ErrorResult(fact, reasoning) ==
    [ fact |-> fact, verdict |-> Str("Error"), reasoning |-> Str(reasoning),
      supporting_urls |-> {} ]

\* lines 110-113
Fallback(d) ==
    [ i \in 1..Len(d) |-> ErrorResult(d[i].fact, "Failed to parse LLM response") ]

\* dict.get(key, default)
get(value, default) == IF value = Missing THEN default ELSE value

\* "key not in llm_results" (line 121): a dict is searched for the key, a
\* list or a string for an element or substring (not found here), and a
\* number is not iterable: TypeError.
KeyLookupRaises(parsed) == parsed.kind = "number"

HasKey(parsed, i) == parsed.kind = "object" /\ i \in DOMAIN parsed.entries

\* "for citation in cited" (line 135): a list yields its elements, a string
\* its characters; None and numbers are not iterable: TypeError.
CitationsOf(cited) ==
    IF cited.kind = "array" THEN cited.items
    ELSE [ k \in 1..Len(cited.s) |-> Str(<< cited.s[k] >>) ]

\* lines 120-153 for the claim at position i: the fault raised, or the result
ClaimOutcome(parsed, i, fact, ev_list) ==
    IF KeyLookupRaises(parsed)
    THEN [ fault |-> "TypeError", result |-> None ]
    ELSE IF ~HasKey(parsed, i)
    THEN [ fault |-> "none", result |-> ErrorResult(fact, "No output from LLM") ]
    ELSE LET llm_fact == parsed.entries[i]
         IN IF llm_fact.kind # "object"
            THEN [ fault |-> "AttributeError", result |-> None ]
            ELSE LET verdict == get(llm_fact.verdict, Str("Uncertain"))
                     reasoning == get(llm_fact.reasoning, Str(""))
                     cited == get(llm_fact.cited_evidence, Arr(<<>>))
                 IN IF cited.kind \notin {"array", "string"}
                    THEN [ fault |-> "TypeError", result |-> None ]
                    ELSE [ fault |-> "none",
                           result |->
                             [ fact |-> fact, verdict |-> verdict,
                               reasoning |-> reasoning,
                               supporting_urls |->
                                 UrlSet(ResolveCitations(CitationsOf(cited), i, ev_list)) ] ]

RECURSIVE ClaimLoop(_, _, _, _)
ClaimLoop(parsed, d, i, acc) ==
    IF i > Len(d) THEN [ outcome |-> "returned", results |-> acc ]
    ELSE LET o == ClaimOutcome(parsed, i, d[i].fact, d[i].evidence)
         IN IF o.fault # "none"
            THEN [ outcome |-> o.fault, results |-> <<>> ]
            ELSE ClaimLoop(parsed, d, i + 1, Append(acc, o.result))

\* the whole function, for the caller in main.py
validate_facts_batch(d, response) ==
    IF response.raises
    THEN [ outcome |-> "GenerationError", results |-> <<>> ]
    ELSE LET parsed == extract_json_from_response(
                           strip(TextOf(response.wrapper), WHITESPACE), response.body)
         IN IF parsed = None
            THEN [ outcome |-> "returned", results |-> Fallback(d) ]
            ELSE ClaimLoop(parsed, d, 1, <<>>)

Raised(o) == o \in {"GenerationError", "TypeError", "AttributeError"}

(* Inputs of the orchestrator *)

CANON_EVIDENCE == << [url |-> "u1"], [url |-> "u2"], [url |-> ""], [url |-> "u1"] >>
BatchEvidenceLists == { SubSeq(CANON_EVIDENCE, 1, k) : k \in 0..MaxEv }

Dicts ==
    { d \in SeqsUpTo([fact : Facts, evidence : BatchEvidenceLists], MaxClaims) :
        /\ Len(d) >= 1
        /\ \A i, j \in 1..Len(d) : i # j => d[i].fact # d[j].fact }

DIGIT_CHARS == << "1", "2", "3", "4", "5", "6", "7", "8", "9" >>
TokenFor(f, e) == Str(WORD \o << " ", DIGIT_CHARS[f], ".", DIGIT_CHARS[e] >>)

BatchTokens ==
    { TokenFor(f, e) : f \in 1..MaxClaims, e \in 1..MaxEv }
        \cup { Str(<< "x" >>), Num }

BaseEntry ==
    [ kind |-> "object", verdict |-> Str("Supported"), reasoning |-> Str("why"),
      cited_evidence |-> Arr(<<>>) ]

VERDICTS == { "Supported", "Refuted", "Cannot Conclude", "Error" }

VerdictInputs ==
    { Str("Supported"), Str("Refuted"), Str("Cannot Conclude"), Str("Maybe"), Missing }

CitedInputs ==
    { Missing, None, Num, Str(<< "1", ".", "1" >>) }
        \cup { Arr(ts) : ts \in SeqsUpTo(BatchTokens, 1) }

Entries ==
    { [BaseEntry EXCEPT !.verdict = v] : v \in VerdictInputs }
        \cup { [BaseEntry EXCEPT !.cited_evidence = c] : c \in CitedInputs }
        \cup { [BaseEntry EXCEPT !.reasoning = Missing], Str("Supported") }

BatchBodies ==
    { Obj(es) : es \in UNION { [K -> Entries] : K \in SUBSET (1..MaxClaims) } }
        \cup { Arr(<<>>), Num, Str("text"), None }

BatchWrappers ==
    { NoWrapper,
      [pre |-> <<>>, fence |-> "json", core |-> JSON_TEXT, post |-> <<>>],
      [pre |-> << "p" >>, fence |-> "none", core |-> <<>>, post |-> <<>>] }

BatchInit ==
    /\ pc = "start"
    /\ facts_evidence_dict \in Dicts
    /\ prompt = <<>> /\ results = <<>> /\ outcome = "none"
    /\ ParserIdle /\ ResolverIdle /\ MainIdle

\* line 104: llm.invoke raises; nothing in validate_facts_batch catches it
InvokeRaises ==
    /\ pc = "start"
    /\ prompt' = FormatEvidence(facts_evidence_dict)
    /\ outcome' = "GenerationError"
    /\ pc' = "done"
    /\ UNCHANGED << parserVars, resolverVars, facts_evidence_dict, results, mainVars >>

\* lines 104-105: llm.invoke returns; msg is the stripped content
InvokeReturns ==
    /\ pc = "start"
    /\ prompt' = FormatEvidence(facts_evidence_dict)
    /\ \E w \in BatchWrappers, b \in BatchBodies :
          /\ wrapper' = w
          /\ msg' = strip(TextOf(w), WHITESPACE)
          /\ body' = b
    /\ pc' = "parse"
    /\ UNCHANGED << llm_results, resolverVars, facts_evidence_dict, results,
                    outcome, mainVars >>

\* lines 108-113: no JSON parsed, every fact gets the fallback result
ParseFails ==
    /\ pc = "parse"
    /\ extract_json_from_response(msg, body) = None
    /\ llm_results' = None
    /\ results' = Fallback(facts_evidence_dict)
    /\ outcome' = "returned"
    /\ pc' = "done"
    /\ UNCHANGED << msg, body, wrapper, resolverVars, facts_evidence_dict, prompt,
                    mainVars >>

\* lines 108-117
ParseOk ==
    /\ pc = "parse"
    /\ extract_json_from_response(msg, body) # None
    /\ llm_results' = extract_json_from_response(msg, body)
    /\ results' = <<>>
    /\ idx' = 1
    /\ pc' = "loop"
    /\ UNCHANGED << msg, body, wrapper, evidence_list, n_cited, supporting_urls,
                    cited_urls, facts_evidence_dict, prompt, outcome, mainVars >>

CurrentOutcome ==
    ClaimOutcome(llm_results, idx, facts_evidence_dict[idx].fact,
                 facts_evidence_dict[idx].evidence)

\* an exception leaves the loop and the function
ClaimRaises ==
    /\ pc = "loop" /\ idx <= Len(facts_evidence_dict)
    /\ CurrentOutcome.fault # "none"
    /\ outcome' = CurrentOutcome.fault
    /\ pc' = "done"
    /\ UNCHANGED << parserVars, resolverVars, facts_evidence_dict, prompt, results,
                    mainVars >>

\* lines 121-127
ClaimMissingKey ==
    /\ pc = "loop" /\ idx <= Len(facts_evidence_dict)
    /\ CurrentOutcome.fault = "none"
    /\ ~HasKey(llm_results, idx)
    /\ results' = Append(results, CurrentOutcome.result)
    /\ idx' = idx + 1
    /\ UNCHANGED << pc, parserVars, evidence_list, n_cited, supporting_urls,
                    cited_urls, facts_evidence_dict, prompt, outcome, mainVars >>

\* lines 129-153
ClaimResolved ==
    /\ pc = "loop" /\ idx <= Len(facts_evidence_dict)
    /\ CurrentOutcome.fault = "none"
    /\ HasKey(llm_results, idx)
    /\ results' = Append(results, CurrentOutcome.result)
    /\ idx' = idx + 1
    /\ UNCHANGED << pc, parserVars, evidence_list, n_cited, supporting_urls,
                    cited_urls, facts_evidence_dict, prompt, outcome, mainVars >>

\* line 155
Return ==
    /\ pc = "loop" /\ idx > Len(facts_evidence_dict)
    /\ outcome' = "returned"
    /\ pc' = "done"
    /\ UNCHANGED << parserVars, resolverVars, facts_evidence_dict, prompt, results,
                    mainVars >>

BatchNext ==
    \/ InvokeRaises
    \/ InvokeReturns
    \/ ParseFails
    \/ ParseOk
    \/ ClaimRaises
    \/ ClaimMissingKey
    \/ ClaimResolved
    \/ Return

SpecBatch == BatchInit /\ [][BatchNext]_vars

----------------------------------------------------------------------------
(* google_search and main *)

EXCLUDED_LINKS == { "reddit.com/r" }
LINKS == { "u1", "" } \cup EXCLUDED_LINKS

\* What requests.get / resp.json meet: a connection error or timeout (get
\* raises), a body that is not JSON (json raises), or a JSON object.
HttpResponses ==
    { [kind |-> "timeout", items |-> <<>>], [kind |-> "undecodable", items |-> <<>>] }
        \cup { [kind |-> "json", items |-> its] :
                 its \in SeqsUpTo([link : LINKS], MaxEv) }

RECURSIVE KeepAllowed(_)
KeepAllowed(items) ==
    IF items = <<>> THEN <<>>
    ELSE (IF Head(items).link \in EXCLUDED_LINKS THEN <<>>
          ELSE << [url |-> Head(items).link] >>) \o KeepAllowed(Tail(items))

\* lines 52-70: nothing catches what requests.get or resp.json raise
google_search(http) ==
    IF http.kind # "json"
    THEN [ raised |-> TRUE, results |-> <<>> ]
    ELSE [ raised |-> FALSE, results |-> KeepAllowed(http.items) ]

\* all_empty without the skip: validation is never bypassed
never_skip(d) == FALSE

\* main.py line 38
all_empty(d) == \A i \in 1..Len(d) : d[i].evidence = <<>>

RaiseResponse == [ raises |-> TRUE, wrapper |-> NoWrapper, body |-> None ]

MainResponses ==
    { RaiseResponse }
        \cup { [ raises |-> FALSE, wrapper |-> NoWrapper, body |-> b ] :
                 b \in { Obj([ i \in 1..MaxClaims |-> BaseEntry ]), Num, None } }

MainInit ==
    /\ pc = "read"
    /\ qa_pairs \in 0..MaxPairs
    /\ qa = 0 /\ facts = <<>> /\ evidence_dict = <<>>
    /\ retrieval_calls = 0 /\ generation_calls = 0 /\ run = "running"
    /\ printed = [kind |-> "none"]
    /\ ParserIdle /\ ResolverIdle /\ BatchIdle

\* lines 13-15
NoPairs ==
    /\ pc = "read" /\ qa_pairs = 0
    /\ run' = "finished"
    /\ pc' = "exit"
    /\ UNCHANGED << parserVars, resolverVars, batchVars, qa_pairs, qa, facts,
                    evidence_dict, retrieval_calls, generation_calls, printed >>

EnterLoop ==
    /\ pc = "read" /\ qa_pairs > 0
    /\ pc' = "next_qa"
    /\ UNCHANGED << parserVars, resolverVars, batchVars, mainVars >>

\* lines 17-29: the next QA pair; extract_facts finds no fact
NoFacts ==
    /\ pc = "next_qa" /\ qa < qa_pairs
    /\ qa' = qa + 1
    /\ facts' = <<>>
    /\ evidence_dict' = <<>>
    /\ retrieval_calls' = 0 /\ generation_calls' = 0
    /\ printed' = [kind |-> "no_facts"]
    /\ UNCHANGED << pc, parserVars, resolverVars, batchVars, qa_pairs, run >>

\* lines 17-32: the next QA pair; extract_facts finds n >= 1 facts
StartBatch ==
    /\ pc = "next_qa" /\ qa < qa_pairs
    /\ qa' = qa + 1
    /\ \E n \in 1..MaxClaims : facts' = SubSeq(ALL_FACTS, 1, n)
    /\ evidence_dict' = <<>>
    /\ retrieval_calls' = 0 /\ generation_calls' = 0
    /\ printed' = [kind |-> "none"]
    /\ pc' = "retrieve"
    /\ UNCHANGED << parserVars, resolverVars, batchVars, qa_pairs, run >>

\* lines 33-35: google_search returns for the next fact
RetrieveReturns ==
    /\ pc = "retrieve" /\ Len(evidence_dict) < Len(facts)
    /\ \E http \in HttpResponses :
          /\ ~google_search(http).raised
          /\ evidence_dict' = Append(evidence_dict,
                 [ fact |-> facts[Len(evidence_dict) + 1],
                   evidence |-> google_search(http).results ])
    /\ retrieval_calls' = retrieval_calls + 1
    /\ UNCHANGED << pc, parserVars, resolverVars, batchVars, qa_pairs, qa, facts,
                    generation_calls, run, printed >>

\* line 34: google_search raises; main has no handler around it
RetrieveRaises ==
    /\ pc = "retrieve" /\ Len(evidence_dict) < Len(facts)
    /\ \E http \in HttpResponses : google_search(http).raised
    /\ run' = "aborted"
    /\ pc' = "exit"
    /\ UNCHANGED << parserVars, resolverVars, batchVars, qa_pairs, qa, facts,
                    evidence_dict, retrieval_calls, generation_calls, printed >>

\* lines 38-44
SkipValidation ==
    /\ pc = "retrieve" /\ Len(evidence_dict) = Len(facts)
    /\ all_empty(evidence_dict)
    /\ printed' = [kind |-> "no_evidence"]
    /\ pc' = "next_qa"
    /\ UNCHANGED << parserVars, resolverVars, batchVars, qa_pairs, qa, facts,
                    evidence_dict, retrieval_calls, generation_calls, run >>

\* lines 46-62: validate_facts_batch is called (its client is taken to be
\* constructible, so that line 104 invokes the model once) and either
\* returns the results, which are printed, or raises, which is caught and
\* reported
Validate ==
    /\ pc = "retrieve" /\ Len(evidence_dict) = Len(facts)
    /\ ~all_empty(evidence_dict)
    /\ generation_calls' = generation_calls + 1
    /\ \E response \in MainResponses :
          LET r == validate_facts_batch(evidence_dict, response)
          IN printed' = IF Raised(r.outcome)
                        THEN [kind |-> "error"]
                        ELSE [kind |-> "results", results |-> r.results]
    /\ pc' = "next_qa"
    /\ UNCHANGED << parserVars, resolverVars, batchVars, qa_pairs, qa, facts,
                    evidence_dict, retrieval_calls, run >>

\* the for loop is exhausted
Finish ==
    /\ pc = "next_qa" /\ qa = qa_pairs
    /\ run' = "finished"
    /\ pc' = "exit"
    /\ UNCHANGED << parserVars, resolverVars, batchVars, qa_pairs, qa, facts,
                    evidence_dict, retrieval_calls, generation_calls, printed >>

MainNext ==
    \/ NoPairs
    \/ EnterLoop
    \/ NoFacts
    \/ StartBatch
    \/ RetrieveReturns
    \/ RetrieveRaises
    \/ SkipValidation
    \/ Validate
    \/ Finish

SpecMain == MainInit /\ [][MainNext]_vars

----------------------------------------------------------------------------
(* Properties *)

N == Len(facts_evidence_dict)

FallbackResult(fact) ==
    [ fact |-> fact, verdict |-> Str("Error"),
      reasoning |-> Str("Failed to parse LLM response"), supporting_urls |-> {} ]

NoOutputResult(fact) ==
    [ fact |-> fact, verdict |-> Str("Error"),
      reasoning |-> Str("No output from LLM"), supporting_urls |-> {} ]

\* C1: when the generation call raises, or returns text from which no JSON
\* is parsed, validate_facts_batch returns a mapping in which every input
\* claim has verdict "Error", reasoning "Failed to parse LLM response" and
\* no supporting URL; no fault leaves the function.
C1_BatchFallback ==
    (pc = "done" /\ llm_results = None) =>
        /\ outcome = "returned"
        /\ Len(results) = N
        /\ \A i \in 1..N : results[i] = FallbackResult(facts_evidence_dict[i].fact)

\* C2: the supporting_urls of the claim at position idx is exactly the set
\* of non-empty URLs stored at the positions enum in 1..L that some consumed
\* token names as (idx, enum); a token naming another claim, an out-of-range
\* position or no position at all adds nothing.
C2_ExactCitations ==
    /\ Range(supporting_urls) = cited_urls
    /\ pc = "stored" => results[1].supporting_urls = cited_urls

\* C2 witness: claim 2 with two evidence items has consumed two tokens, of
\* which exactly one resolved, to the URL stored at position 2.
C2_Witness ==
    /\ pc = "stored" /\ idx = 2 /\ n_cited = 2
    /\ Len(evidence_list) = 2
    /\ evidence_list[1].url = "u1" /\ evidence_list[2].url = "u2"
    /\ supporting_urls = << "u2" >>
    /\ results[1].supporting_urls = { "u2" }

\* C3: when the generated text parses to an object whose entries for the
\* batch's claims are objects, then whatever their cited_evidence is, the
\* function returns, and each such claim has its verdict and reasoning and a
\* set of URLs of its own evidence.
C3_CitationsNeverAbort ==
    ( /\ pc = "done"
      /\ llm_results.kind = "object"
      /\ \A i \in 1..N : HasKey(llm_results, i) => llm_results.entries[i].kind = "object" )
    =>
        /\ outcome = "returned"
        /\ Len(results) = N
        /\ \A i \in 1..N : HasKey(llm_results, i) =>
              /\ results[i].verdict = get(llm_results.entries[i].verdict, Str("Uncertain"))
              /\ results[i].reasoning = get(llm_results.entries[i].reasoning, Str(""))
              /\ results[i].supporting_urls \subseteq
                     { facts_evidence_dict[i].evidence[k].url :
                         k \in 1..Len(facts_evidence_dict[i].evidence) }

\* C4: extract_json_from_response returns a JSON object or None, never a
\* value of another kind.
C4_ObjectOrNone ==
    pc = "parsed" => llm_results.kind \in { "object", "null" }

\* C5: for a JSON object text J the parser returns the same object for J
\* alone, J in a json fence, J in a bare fence, and J with prose (letters
\* and spaces) before and/or after it, fenced or not.
C5_WrapperIndependence ==
    ( /\ pc = "parsed"
      /\ body.kind = "object"
      /\ wrapper.core = JSON_TEXT
      /\ "BT" \notin Range(wrapper.pre) \cup Range(wrapper.post) )
    => llm_results = extract_json_from_response(JSON_TEXT, body)

\* C6: every verdict of a returned mapping is one of "Supported", "Refuted",
\* "Cannot Conclude" and "Error".
C6_VerdictEnumerated ==
    (pc = "done" /\ outcome = "returned") =>
        \A i \in 1..Len(results) : results[i].verdict \in { Str(v) : v \in VERDICTS }

\* the result the code derives from key fact_i alone
DerivedFrom(i) ==
    IF HasKey(llm_results, i)
    THEN [ fact |-> facts_evidence_dict[i].fact,
           verdict |-> get(llm_results.entries[i].verdict, Str("Uncertain")),
           reasoning |-> get(llm_results.entries[i].reasoning, Str("")),
           supporting_urls |->
              UNION { NamedUrls(tok, i, facts_evidence_dict[i].evidence) :
                        tok \in Range(CitationsOf(
                           get(llm_results.entries[i].cited_evidence, Arr(<<>>)))) } ]
    ELSE NoOutputResult(facts_evidence_dict[i].fact)

Covered ==
    /\ Len(results) = N
    /\ \A i \in 1..N :
          /\ results[i].fact = facts_evidence_dict[i].fact
          /\ prompt[i].fact_no = i /\ prompt[i].fact = results[i].fact
          /\ llm_results = None => results[i] = FallbackResult(facts_evidence_dict[i].fact)
          /\ llm_results # None => results[i] = DerivedFrom(i)

\* C7: for every generated text the output mapping has the input claims as
\* keys, each once and in input order, the claim at position i paired with
\* the result derived from key fact_i.
C7_OrderedCoverage ==
    (pc = "done" /\ outcome # "GenerationError") =>
        (outcome = "returned" /\ Covered)

\* C7 on the runs in which the function returns
C7_WhenReturned ==
    (pc = "done" /\ outcome = "returned") => Covered

\* C8: when the parsed object lacks key fact_i for some claim i (its other
\* entries being objects), that claim gets verdict "Error" with reasoning
\* "No output from LLM" and no URL, and every claim whose key is present gets
\* the result derived from its own key.
C8_MissingKeyIsolation ==
    ( /\ pc = "done"
      /\ llm_results.kind = "object"
      /\ \E i \in 1..N : ~HasKey(llm_results, i)
      /\ \A i \in 1..N : HasKey(llm_results, i) => llm_results.entries[i].kind = "object" )
    =>
        /\ outcome = "returned"
        /\ Len(results) = N
        /\ \A i \in 1..N : results[i] = DerivedFrom(i)

\* C8 on the runs in which the function returns
C8_WhenReturned ==
    ( /\ pc = "done" /\ outcome = "returned"
      /\ llm_results.kind = "object"
      /\ \E i \in 1..N : ~HasKey(llm_results, i) )
    => (Len(results) = N /\ \A i \in 1..N : results[i] = DerivedFrom(i))

BatchOver == pc \in { "next_qa", "exit" } /\ Len(facts) >= 1

SomeEvidence == \E i \in 1..Len(evidence_dict) : evidence_dict[i].evidence # <<>>

\* C9, as stated: once the N >= 1 retrieval calls of a batch have returned,
\* the generation capability is invoked exactly once, also when every
\* evidence list is empty.
C9_OnceEvenIfAllEmpty ==
    (BatchOver /\ retrieval_calls = Len(facts)) => generation_calls = 1

\* C9, amended: the generation capability is invoked at most once per batch
\* and never before all N retrieval calls have returned; when the batch is
\* over it has been invoked exactly once if all N retrievals returned and
\* some evidence list is non-empty, and not at all otherwise.
C9_CallDiscipline ==
    /\ generation_calls <= 1
    /\ generation_calls = 1 =>
          (retrieval_calls = Len(facts) /\ Len(evidence_dict) = Len(facts))
    /\ BatchOver =>
          (generation_calls = 1 <=> (retrieval_calls = Len(facts) /\ SomeEvidence))

\* C9 witness: a batch of two claims, the first with no evidence, the second
\* with some; the one generation call failed and was not repeated.
C9_Witness ==
    /\ BatchOver /\ Len(facts) = 2 /\ retrieval_calls = 2
    /\ evidence_dict[1].evidence = <<>> /\ evidence_dict[2].evidence # <<>>
    /\ generation_calls = 1
    /\ printed.kind = "error"

\* C10: a failing retrieval call never ends the run: main leaves only when
\* every QA pair has been processed.
C10_RetrievalNeverAborts ==
    pc = "exit" => (run = "finished" /\ qa = qa_pairs)

====
